---- MODULE Spec2Model ----
(***************************************************************************)
(* SmallVector<T, STATIC_AMOUNT>: a sequence container that keeps up to    *)
(* STATIC_AMOUNT elements in an inline byte array (arr_) and moves them    *)
(* into a std::vector (vec_) once that array overflows.                    *)
(*                                                                         *)
(* The model follows the current header (src/unnamed/part_002).  Two       *)
(* container objects, "a" and "b", are modelled so that the operations     *)
(* taking a second container (swap, assignment, append) have an operand.   *)
(* Positions (iterators) are modelled by their zero-based index            *)
(* pos - cbegin(); end() is the index size_.                               *)
(***************************************************************************)
EXTENDS Integers, Sequences, FiniteSets, TLC

\* Inline capacity of the instantiation that is model-checked.
STATIC_AMOUNT == 2

\* No operation of the model grows a container beyond MaxLen elements.
MaxLen == 4

\* While the second container is in use the two hold at most MaxLenPair
\* elements between them: enough for either to spill.
MaxLenPair == STATIC_AMOUNT + 1

\* std::numeric_limits<T>::max() of the element type T: T is modelled as a
\* 3-bit signed integer type.
T_MAX == 3

\* The values of T that callers pass in.  T() is DefaultT.
DefaultT == 0
Val == {0, 1}

\* Content of storage that holds no value the program may rely on.
Raw == -1

Conts == {"a", "b"}

\* The constants of the default inline capacity
CACHE_LINE_SIZE_BYTES == 64
MAX_SIZE_BYTES == 10240
FALLBACK_SIZE == 8

\* size_t is modelled SizeTBits wide: wide enough that FALLBACK_SIZE times an
\* element size wraps around only for sizes beyond MAX_SIZE_BYTES, as it does
\* at 64 bits.
SizeTBits == 18
SizeTMod == 2 ^ SizeTBits

VARIABLES
  sv,      \* sv[c] = [arr_, vec_, size_]: the members of container c
  last,    \* the call that produced the current state, with what it returned
  pushed,  \* pushed[c]: the values given to push_back since c was default-
           \* constructed, as long as nothing but push_back was applied to
           \* c; NoLog otherwise
  sized    \* an evaluation of calculate_static_size: the element size it is
           \* given and, once evaluated, the inline capacity N it returns

vars == <<sv, last, pushed, sized>>

-----------------------------------------------------------------------------
(* The default inline capacity                                             *)

\* calculate_static_size without the cap at MAX_SIZE_BYTES
calculate_static_size_uncapped(size_of_t) ==
  IF size_of_t <= CACHE_LINE_SIZE_BYTES
    THEN CACHE_LINE_SIZE_BYTES \div size_of_t
    ELSE FALLBACK_SIZE

\* consteval size_t calculate_static_size(const size_t size_of_t), in size_t
\* arithmetic
calculate_static_size(size_of_t) ==
  IF size_of_t <= CACHE_LINE_SIZE_BYTES
    THEN CACHE_LINE_SIZE_BYTES \div size_of_t
    ELSE IF (FALLBACK_SIZE * size_of_t) % SizeTMod <= MAX_SIZE_BYTES
           THEN FALLBACK_SIZE
           ELSE LET divided_size == MAX_SIZE_BYTES \div size_of_t IN
                IF divided_size = 0 THEN 1 ELSE divided_size

-----------------------------------------------------------------------------
(* Inline storage: arr_ is STATIC_AMOUNT slots.  A slot records the bytes   *)
(* it holds (val) and whether a T object is alive in it (live).  ~T()       *)
(* ends the object's life and leaves the bytes where they are.             *)
(* Two marks record what a call did to the objects of a slot: over, a T    *)
(* was constructed (or bytes were written) over an object that was still   *)
(* alive, which is thereby lost without its destructor; dead, ~T() ran on  *)
(* a slot that held no live object.  Three counters count, per slot, what   *)
(* a call did there: built, the constructions of a T; moved, those of them *)
(* that constructed the T from another T (move or copy construction);      *)
(* ended, the destructions.                                                *)

RawSlot == [val |-> Raw, live |-> FALSE, over |-> FALSE, dead |-> FALSE,
            built |-> 0, moved |-> 0, ended |-> 0]

RawArr == [k \in 1..STATIC_AMOUNT |-> RawSlot]

\* new (get_arr_element_ptr(i)) T(args...): a T constructed in place
Construct(arr, i, v) ==
  [arr EXCEPT ![i + 1] = [val |-> v, live |-> TRUE,
                          over |-> @.over \/ @.live, dead |-> @.dead,
                          built |-> @.built + 1, moved |-> @.moved,
                          ended |-> @.ended]]

\* new (get_arr_element_ptr(i)) T(std::move(x)), or T(x): a T constructed
\* from another T
ConstructFrom(arr, i, v) ==
  [arr EXCEPT ![i + 1] = [val |-> v, live |-> TRUE,
                          over |-> @.over \/ @.live, dead |-> @.dead,
                          built |-> @.built + 1, moved |-> @.moved + 1,
                          ended |-> @.ended]]

\* get_arr_element_ptr(i)->~T()
Destroy(arr, i) ==
  [arr EXCEPT ![i + 1] = [val |-> @.val, live |-> FALSE,
                          over |-> @.over, dead |-> @.dead \/ ~@.live,
                          built |-> @.built, moved |-> @.moved,
                          ended |-> @.ended + 1]]

\* The implicit copy of the byte array arr_: the bytes of src land in dst and
\* no constructor of T runs, so the slots of dst hold no object of their own;
\* an object alive in dst before is written over.
ByteCopy(dst, src) ==
  [k \in 1..STATIC_AMOUNT |->
     [val |-> src[k].val, live |-> FALSE,
      over |-> dst[k].over \/ dst[k].live, dead |-> dst[k].dead,
      built |-> dst[k].built, moved |-> dst[k].moved, ended |-> dst[k].ended]]

\* get_arr_element(i), read as a value
get_arr_element(arr, i) == arr[i + 1].val

-----------------------------------------------------------------------------
(* std::optional<std::vector<T>>: has = has_value(), buf = the elements,    *)
(* cap = capacity().  The vector grows by doubling, reserve(n) allocates    *)
(* exactly n, shrink_to_fit() reallocates to size().                        *)

NoVec == [has |-> FALSE, buf |-> <<>>, cap |-> 0]

EmptyVec == [has |-> TRUE, buf |-> <<>>, cap |-> 0]

VecReserve(v, n) == IF n > v.cap THEN [v EXCEPT !.cap = n] ELSE v

VecGrow(v) ==
  IF Len(v.buf) = v.cap
    THEN [v EXCEPT !.cap = IF v.cap = 0 THEN 1 ELSE 2 * v.cap]
    ELSE v

VecPushBack(v, x) == [VecGrow(v) EXCEPT !.buf = Append(v.buf, x)]

VecInsert(v, idx, x) ==
  [VecGrow(v) EXCEPT
     !.buf = SubSeq(v.buf, 1, idx) \o <<x>> \o SubSeq(v.buf, idx + 1, Len(v.buf))]

VecEraseRange(v, first, lst) ==
  [v EXCEPT !.buf = SubSeq(v.buf, 1, first) \o SubSeq(v.buf, lst + 1, Len(v.buf))]

VecErase(v, idx) == VecEraseRange(v, idx, idx + 1)

\* clear() that gives the allocation back
VecClearReleasing(v) == [v EXCEPT !.buf = <<>>, !.cap = 0]

VecClear(v) == [v EXCEPT !.buf = <<>>]

VecShrinkToFit(v) == [v EXCEPT !.cap = Len(v.buf)]

-----------------------------------------------------------------------------
(* Observers                                                               *)

is_vector(S) == S.vec_.has

is_array(S) == ~is_vector(S)

size(S) == S.size_

empty(S) == S.size_ = 0

capacity(S) == IF ~S.vec_.has THEN STATIC_AMOUNT ELSE S.vec_.cap

max_size == T_MAX

\* operator[](i): an index the active storage does not hold reads Raw
At(S, i) ==
  IF S.vec_.has
    THEN IF i < Len(S.vec_.buf) THEN S.vec_.buf[i + 1] ELSE Raw
    ELSE IF i < STATIC_AMOUNT THEN get_arr_element(S.arr_, i) ELSE Raw

\* at(i) whose range check lets i == size_ through
at_inclusive(S, i) ==
  IF i > S.size_
    THEN [threw |-> TRUE, val |-> Raw, s |-> S]
    ELSE [threw |-> FALSE, val |-> At(S, i), s |-> S]

\* at(i): throws std::out_of_range when i >= size_, else returns (*this)[i].
\* The container is not touched (s is what it is after the call).
at(S, i) ==
  IF i >= S.size_
    THEN [threw |-> TRUE, val |-> Raw, s |-> S]
    ELSE [threw |-> FALSE, val |-> At(S, i), s |-> S]

\* The element sequence a caller reads through operator[] / begin()..end()
Elems(S) == [k \in 1..S.size_ |-> At(S, k - 1)]

\* std::equal(begin(), end(), other.begin()): compares element i of both for
\* i = 0 .. size_ - 1 and stops at the first pair that differs
RECURSIVE std_equal(_, _, _)
std_equal(S, O, i) ==
  IF i = S.size_ THEN TRUE
  ELSE IF At(S, i) # At(O, i) THEN FALSE
  ELSE std_equal(S, O, i + 1)

\* operator== that compares the lengths only
operator_eq_sizes(S, O) == S.size_ = size(O)

\* operator==(const SmallVector&)
operator_eq(S, O) ==
  IF S.size_ # size(O) THEN FALSE ELSE std_equal(S, O, 0)

\* operator!=(const SmallVector&)
operator_ne(S, O) == ~operator_eq(S, O)

-----------------------------------------------------------------------------
(* Iterators: a T* is the storage it points into ("vec" for the vector's    *)
(* buffer, "arr" for arr_) and an element offset in it.                     *)

\* end() that points past the capacity instead of past the last element
end_at_capacity(S) ==
  IF S.vec_.has THEN [into |-> "vec", off |-> S.vec_.cap]
                ELSE [into |-> "arr", off |-> STATIC_AMOUNT]

\* data(): vec_ ? &(*vec_)[0] : get_arr_element_ptr(0)
data(S) ==
  IF S.vec_.has THEN [into |-> "vec", off |-> 0]
                ELSE [into |-> "arr", off |-> 0]

\* begin(), cbegin()
begin(S) ==
  IF S.vec_.has THEN [into |-> "vec", off |-> 0]
                ELSE [into |-> "arr", off |-> 0]

\* end(), cend(): vec_ ? &(*vec_)[size_] : get_arr_element_ptr(size_)
end(S) ==
  IF S.vec_.has THEN [into |-> "vec", off |-> S.size_]
                ELSE [into |-> "arr", off |-> S.size_]

\* p + n and p - q on T*
Advance(p, n) == [p EXCEPT !.off = @ + n]
Distance(p, q) == p.off - q.off

\* *p: what the storage of S pointed into holds at the offset; Raw where it
\* holds no element
Deref(S, p) ==
  IF p.into = "vec"
    THEN IF p.off >= 0 /\ p.off < Len(S.vec_.buf)
           THEN S.vec_.buf[p.off + 1] ELSE Raw
    ELSE IF p.off >= 0 /\ p.off < STATIC_AMOUNT
           THEN get_arr_element(S.arr_, p.off) ELSE Raw

\* rbegin() == reverse_iterator(end()), rend() == reverse_iterator(begin())
rbegin(S) == [base |-> end(S)]
rend(S) == [base |-> begin(S)]

\* std::reverse_iterator: *r is *(base - 1), ++r is --base
ReverseDeref(S, r) == Deref(S, Advance(r.base, -1))
ReverseAdvance(r) == [base |-> Advance(r.base, -1)]

\* for (it = first; it != stop; ++it) visit(*it): the values visited
RECURSIVE Traverse(_, _, _)
Traverse(S, it, stop) ==
  IF it = stop THEN <<>>
  ELSE <<Deref(S, it)>> \o Traverse(S, Advance(it, 1), stop)

RECURSIVE ReverseTraverse(_, _, _)
ReverseTraverse(S, r, stop) ==
  IF r = stop THEN <<>>
  ELSE <<ReverseDeref(S, r)>> \o ReverseTraverse(S, ReverseAdvance(r), stop)

-----------------------------------------------------------------------------
(* The member functions, as functions from the members S = [arr_, vec_,    *)
(* size_] before the call to the members after it.  The loops are          *)
(* unrolled by recursion on the loop index.                                *)

RECURSIVE spillover_loop(_, _)
spillover_loop(S, i) ==
  IF i < S.size_ /\ i < STATIC_AMOUNT
    THEN spillover_loop(
           [S EXCEPT !.vec_ = VecPushBack(@, get_arr_element(S.arr_, i)),
                     !.arr_ = Destroy(@, i)],
           i + 1)
    ELSE S

\* vec_ = std::make_optional<VecT>(); vec_->reserve(capacity); then the loop
spillover(S, cap) ==
  spillover_loop([S EXCEPT !.vec_ = VecReserve(EmptyVec, cap)], 0)

\* reserve without the early return for n <= STATIC_AMOUNT
reserve_unchecked(S, n) ==
  IF ~S.vec_.has
    THEN spillover(S, n)
    ELSE [S EXCEPT !.vec_ = VecReserve(@, n)]

reserve(S, n) ==
  IF n <= STATIC_AMOUNT
    THEN S
    ELSE IF ~S.vec_.has
           THEN spillover(S, n)
           ELSE [S EXCEPT !.vec_ = VecReserve(@, n)]

shrink_to_fit(S) ==
  IF S.vec_.has THEN [S EXCEPT !.vec_ = VecShrinkToFit(@)] ELSE S

RECURSIVE clear_loop(_, _)
clear_loop(arr, i) ==
  IF i > 0 THEN clear_loop(Destroy(arr, i - 1), i - 1) ELSE arr

\* clear() that also gives up the vector
clear_releasing(S) ==
  [(IF S.vec_.has
      THEN [S EXCEPT !.vec_ = NoVec]
      ELSE [S EXCEPT !.arr_ = clear_loop(@, S.size_)])
   EXCEPT !.size_ = 0]

clear(S) ==
  [(IF S.vec_.has
      THEN [S EXCEPT !.vec_ = VecClear(@)]
      ELSE [S EXCEPT !.arr_ = clear_loop(@, S.size_)])
   EXCEPT !.size_ = 0]

\* the shift loop stopping one element early (i > idx + 1)
RECURSIVE insert_shift_short(_, _, _)
insert_shift_short(arr, i, idx) ==
  IF i > idx + 1
    THEN insert_shift_short(
           Destroy(ConstructFrom(arr, i, get_arr_element(arr, i - 1)), i - 1),
           i - 1, idx)
    ELSE arr

\* for (i = size_ - 1; i > idx; --i) { new (dst) T(std::move(*src)); src->~T(); }
RECURSIVE insert_shift(_, _, _)
insert_shift(arr, i, idx) ==
  IF i > idx
    THEN insert_shift(
           Destroy(ConstructFrom(arr, i, get_arr_element(arr, i - 1)), i - 1),
           i - 1, idx)
    ELSE arr

\* insert that spills whenever the container is inline, full or not
insert_always_spills(S, idx, v) ==
  LET S1 == [S EXCEPT !.size_ = @ + 1]
      S2 == IF ~S1.vec_.has THEN spillover(S1, S1.size_) ELSE S1 IN
  [s   |-> [S2 EXCEPT !.vec_ = VecInsert(@, idx, v)],
   ret |-> idx]

\* insert(pos, T&&); insert(pos, const T&) forwards a copy of the value to it.
\* The result is the members after the call and the returned position.
insert(S, idx, v) ==
  LET S1 == [S EXCEPT !.size_ = @ + 1] IN
  IF ~S1.vec_.has /\ S1.size_ <= STATIC_AMOUNT
    THEN [s   |-> [S1 EXCEPT !.arr_ =
                     ConstructFrom(insert_shift(@, S1.size_ - 1, idx), idx, v)],
          ret |-> idx]
    ELSE LET S2 == IF ~S1.vec_.has THEN spillover(S1, S1.size_) ELSE S1 IN
         [s   |-> [S2 EXCEPT !.vec_ = VecInsert(@, idx, v)],
          ret |-> idx]

emplace(S, idx, v) ==
  LET S1 == [S EXCEPT !.size_ = @ + 1] IN
  IF ~S1.vec_.has /\ S1.size_ <= STATIC_AMOUNT
    THEN [s   |-> [S1 EXCEPT !.arr_ =
                     Construct(insert_shift(@, S1.size_ - 1, idx), idx, v)],
          ret |-> idx]
    ELSE LET S2 == IF ~S1.vec_.has THEN spillover(S1, S1.size_) ELSE S1 IN
         [s   |-> [S2 EXCEPT !.vec_ = VecInsert(@, idx, v)],
          ret |-> idx]

\* for (i = from; i < size_; ++i) { new (arr + i - diff) T(std::move(arr[i])); arr[i].~T(); }
RECURSIVE erase_shift(_, _, _, _)
erase_shift(arr, i, n, diff) ==
  IF i < n
    THEN erase_shift(
           Destroy(ConstructFrom(arr, i - diff, get_arr_element(arr, i)), i),
           i + 1, n, diff)
    ELSE arr

\* for (i = first_idx; i < last_idx; i++) arr[i].~T();
RECURSIVE destroy_range(_, _, _)
destroy_range(arr, i, last_idx) ==
  IF i < last_idx THEN destroy_range(Destroy(arr, i), i + 1, last_idx) ELSE arr

\* erase(pos) whose vector branch forgets size_--
erase_stale_size(S, idx) ==
  IF S.vec_.has
    THEN [s   |-> [S EXCEPT !.vec_ = VecErase(@, idx)],
          ret |-> idx]
    ELSE LET S1 == [S EXCEPT !.arr_ = erase_shift(Destroy(@, idx), idx + 1, S.size_, 1),
                             !.size_ = @ - 1] IN
         [s   |-> S1,
          ret |-> IF idx = S1.size_ THEN S1.size_ ELSE idx]

\* erase(pos)
erase(S, idx) ==
  IF S.vec_.has
    THEN [s   |-> [S EXCEPT !.vec_ = VecErase(@, idx), !.size_ = @ - 1],
          ret |-> idx]
    ELSE LET S1 == [S EXCEPT !.arr_ = erase_shift(Destroy(@, idx), idx + 1, S.size_, 1),
                             !.size_ = @ - 1] IN
         [s   |-> S1,
          ret |-> IF idx = S1.size_ THEN S1.size_ ELSE idx]

\* erase(first, last) whose inline shift loop starts at last_idx + 1
erase_range_skip_first(S, first_idx, last_idx) ==
  IF S.vec_.has
    THEN [s   |-> [S EXCEPT !.vec_ = VecEraseRange(@, first_idx, last_idx),
                            !.size_ = @ - (last_idx - first_idx)],
          ret |-> first_idx]
    ELSE LET diff == last_idx - first_idx
             S1 == [S EXCEPT
                      !.arr_ = erase_shift(destroy_range(@, first_idx, last_idx),
                                           last_idx + 1, S.size_, diff),
                      !.size_ = @ - (last_idx - first_idx)] IN
         [s   |-> S1,
          ret |-> IF last_idx = S1.size_ THEN S1.size_ ELSE last_idx]

\* erase(first, last)
erase_range(S, first_idx, last_idx) ==
  IF S.vec_.has
    THEN [s   |-> [S EXCEPT !.vec_ = VecEraseRange(@, first_idx, last_idx),
                            !.size_ = @ - (last_idx - first_idx)],
          ret |-> first_idx]
    ELSE LET diff == last_idx - first_idx
             S1 == [S EXCEPT
                      !.arr_ = erase_shift(destroy_range(@, first_idx, last_idx),
                                           last_idx, S.size_, diff),
                      !.size_ = @ - (last_idx - first_idx)] IN
         [s   |-> S1,
          ret |-> IF last_idx = S1.size_ THEN S1.size_ ELSE last_idx]

\* emplace_back that builds a temporary and moves it into place, as
\* push_back(T(args...)) would
emplace_back_via_temporary(S, v) ==
  [(IF ~S.vec_.has
      THEN IF S.size_ >= STATIC_AMOUNT
             THEN [spillover(S, S.size_ + 1) EXCEPT !.vec_ = VecPushBack(@, v)]
             ELSE [S EXCEPT !.arr_ = ConstructFrom(@, S.size_, v)]
      ELSE [S EXCEPT !.vec_ = VecPushBack(@, v)])
   EXCEPT !.size_ = @ + 1]

\* push_back that spills one element too early (size_ + 1 >= STATIC_AMOUNT)
push_back_early_spill(S, v) ==
  [(IF ~S.vec_.has
      THEN IF S.size_ + 1 >= STATIC_AMOUNT
             THEN [spillover(S, S.size_ + 1) EXCEPT !.vec_ = VecPushBack(@, v)]
             ELSE [S EXCEPT !.arr_ = ConstructFrom(@, S.size_, v)]
      ELSE [S EXCEPT !.vec_ = VecPushBack(@, v)])
   EXCEPT !.size_ = @ + 1]

\* push_back(T&&) and push_back(const T&)
push_back(S, v) ==
  [(IF ~S.vec_.has
      THEN IF S.size_ >= STATIC_AMOUNT
             THEN [spillover(S, S.size_ + 1) EXCEPT !.vec_ = VecPushBack(@, v)]
             ELSE [S EXCEPT !.arr_ = ConstructFrom(@, S.size_, v)]
      ELSE [S EXCEPT !.vec_ = VecPushBack(@, v)])
   EXCEPT !.size_ = @ + 1]

emplace_back(S, v) ==
  [(IF ~S.vec_.has
      THEN IF S.size_ >= STATIC_AMOUNT
             THEN [spillover(S, S.size_ + 1) EXCEPT !.vec_ = VecPushBack(@, v)]
             ELSE [S EXCEPT !.arr_ = Construct(@, S.size_, v)]
      ELSE [S EXCEPT !.vec_ = VecPushBack(@, v)])
   EXCEPT !.size_ = @ + 1]

\* pop_back() { erase(cend() - 1); }
pop_back(S) == erase(S, S.size_ - 1).s

\* for (i = size_; i < count; ++i) push_back(value);  size_ grows with each push
RECURSIVE fill_loop(_, _, _)
fill_loop(S, count, v) ==
  IF S.size_ < count THEN fill_loop(push_back(S, v), count, v) ELSE S

RECURSIVE emplace_loop(_, _)
emplace_loop(S, count) ==
  IF S.size_ < count THEN emplace_loop(emplace_back(S, DefaultT), count) ELSE S

\* resize(count, value): the members after the call, and whether it threw
resize_fill(S, count, v) ==
  IF count = S.size_ THEN [s |-> S, threw |-> FALSE]
  ELSE IF count > max_size THEN [s |-> S, threw |-> TRUE]
  ELSE IF S.size_ > count
    THEN [s |-> erase_range(S, count, S.size_).s, threw |-> FALSE]
    ELSE [s |-> fill_loop(reserve(S, count), count, v), threw |-> FALSE]

\* resize(count)
resize(S, count) ==
  IF count = S.size_ THEN [s |-> S, threw |-> FALSE]
  ELSE IF count > max_size THEN [s |-> S, threw |-> TRUE]
  ELSE IF S.size_ > count
    THEN [s |-> erase_range(S, count, S.size_).s, threw |-> FALSE]
    ELSE [s |-> emplace_loop(reserve(S, count), count), threw |-> FALSE]

-----------------------------------------------------------------------------
(* Operations on two containers                                            *)

\* swap that leaves the two size_ members where they are
swap_keeps_size(S, O) ==
  [self  |-> [arr_ |-> O.arr_, vec_ |-> O.vec_, size_ |-> S.size_],
   other |-> [arr_ |-> S.arr_, vec_ |-> S.vec_, size_ |-> O.size_]]

\* swap(other): std::swap of arr_, vec_ and size_.  The members of both after.
swap(S, O) == [self |-> O, other |-> S]

\* std::optional<std::vector<T>>::operator=(const optional&)
OptCopyAssign(t, o) ==
  IF ~o.has THEN NoVec
  ELSE [has |-> TRUE, buf |-> o.buf,
        cap |-> IF t.has /\ t.cap >= Len(o.buf) THEN t.cap ELSE Len(o.buf)]

\* operator=(const SmallVector&) = default: member-wise copy assignment
copy_assign(S, O) ==
  [arr_  |-> ByteCopy(S.arr_, O.arr_),
   vec_  |-> OptCopyAssign(S.vec_, O.vec_),
   size_ |-> O.size_]

\* operator=(SmallVector&&) = default: member-wise move assignment.  The bytes
\* and size_ are copied; an engaged vec_ hands over its buffer and stays
\* engaged, holding an empty vector.
move_assign(S, O) ==
  [self  |-> [arr_ |-> ByteCopy(S.arr_, O.arr_), vec_ |-> O.vec_, size_ |-> O.size_],
   other |-> [O EXCEPT !.vec_ = IF O.vec_.has THEN EmptyVec ELSE NoVec]]

\* std::copy / std::move (other.begin(), other.end(), std::back_inserter(*this))
RECURSIVE back_insert(_, _, _, _)
back_insert(S, O, i, n) ==
  IF i < n THEN back_insert(push_back(S, At(O, i)), O, i + 1, n) ELSE S

\* append(const SmallVector&), other a different object
append_copy(S, O) ==
  IF O.size_ = 0 THEN S
  ELSE back_insert(reserve(S, S.size_ + O.size_), O, 0, O.size_)

\* append(SmallVector&&), other a different object
append_move(S, O) ==
  IF O.size_ = 0 THEN [self |-> S, other |-> O]
  ELSE [self  |-> back_insert(reserve(S, S.size_ + O.size_), O, 0, O.size_),
        other |-> clear(O)]

\* append(const SmallVector&) with other == *this: there is no check for it.
\* other.begin() and other.end() are taken after the reserve, which leaves
\* room for every push, so the first size_ elements are read where they stay.
append_copy_self(S) ==
  IF S.size_ = 0 THEN S
  ELSE LET R == reserve(S, S.size_ + S.size_) IN back_insert(R, R, 0, S.size_)

\* append(SmallVector&&) with other == *this: if (this == &other) return;
append_move_self(S) == S

-----------------------------------------------------------------------------
(* Constructors and destructor                                             *)

ctor_default == [arr_ |-> RawArr, vec_ |-> NoVec, size_ |-> 0]

\* SmallVector(size_t count)
ctor_count(count) == emplace_loop(reserve(ctor_default, count), count)

\* the fill constructor ignoring its value
ctor_fill_as_count(count, v) == ctor_count(count)

\* SmallVector(size_t count, const T& value)
ctor_fill(count, v) == fill_loop(reserve(ctor_default, count), count, v)

RECURSIVE copy_list(_, _, _)
copy_list(S, init, i) ==
  IF i <= Len(init) THEN copy_list(push_back(S, init[i]), init, i + 1) ELSE S

\* SmallVector(std::initializer_list<T> init)
ctor_list(init) == copy_list(reserve(ctor_default, Len(init)), init, 1)

\* SmallVector(const SmallVector&) = default: member-wise copy construction
\* into fresh storage
copy_ctor(O) ==
  [arr_  |-> ByteCopy(RawArr, O.arr_),
   vec_  |-> OptCopyAssign(NoVec, O.vec_),
   size_ |-> O.size_]

\* SmallVector(SmallVector&&) = default: member-wise move construction
move_ctor(O) ==
  [self  |-> [arr_ |-> ByteCopy(RawArr, O.arr_), vec_ |-> O.vec_, size_ |-> O.size_],
   other |-> [O EXCEPT !.vec_ = IF O.vec_.has THEN EmptyVec ELSE NoVec]]

\* ~SmallVector() { clear(); } and then the members' destructors: vec_ destroys
\* its vector with the elements left in it, arr_ is bytes.
dtor(S) == [clear(S) EXCEPT !.vec_ = NoVec]

-----------------------------------------------------------------------------
(* State machine                                                           *)

NoArg == -1

NoLog == <<Raw>>

\* Bytes the program never reads before it overwrites them are kept as Raw:
\* a slot at or beyond size_ that holds no live object, and every such slot
\* once the container is spilled.  The marks and counters of the finished call
\* are not part of the program's state either.
Unread(S) ==
  [S EXCEPT !.arr_ =
     [k \in 1..STATIC_AMOUNT |->
        IF ~S.arr_[k].live /\ (S.vec_.has \/ k > S.size_)
          THEN RawSlot
          ELSE [S.arr_[k] EXCEPT !.over = FALSE, !.dead = FALSE,
                                 !.built = 0, !.moved = 0, !.ended = 0]]]

\* The call just made: the member function, the container it was called on,
\* the position it returned, whether it threw, and whether the container was
\* spilled before the call.
Call(op, c, ret, threw) ==
  [op |-> op, c |-> c, ret |-> ret, threw |-> threw, pre_vec |-> sv[c].vec_.has]

\* The model's bound on a call on container c that adds k elements.
Room(c, k) ==
  LET total == sv["a"].size_ + sv["b"].size_ + k IN
  /\ total <= MaxLen
  /\ (c = "b" \/ sv["b"] # ctor_default) => total <= MaxLenPair

\* The bound on a call that involves both containers and adds k elements.
RoomPair(k) == sv["a"].size_ + sv["b"].size_ + k <= MaxLenPair

\* A position the caller may pass: within [begin(), end()] of the storage.
ValidPos(S, idx) ==
  idx <= S.size_ /\ (S.vec_.has => idx <= Len(S.vec_.buf))

Seqs(n) == UNION {[1..k -> Val] : k \in 0..n}

\* construct(count[, value]) is called with count <= max_size()
CtorCounts == {n \in 0..MaxLen : n <= max_size}

\* No evaluation of calculate_static_size is under way
NoSize == [size_of_t |-> 0, N |-> 0]

Init ==
  /\ sized = NoSize
  /\ \E how \in {"default", "count", "fill", "list"} :
       \/ /\ how = "default"
          /\ sv = [c \in Conts |-> ctor_default]
          /\ last = [op |-> "SmallVector()", c |-> "a", ret |-> NoArg, threw |-> FALSE,
                     pre_vec |-> FALSE]
          /\ pushed = [c \in Conts |-> <<>>]
       \/ /\ how = "count"
          /\ \E count \in CtorCounts :
               /\ sv = [c \in Conts |->
                          IF c = "a" THEN Unread(ctor_count(count)) ELSE ctor_default]
               /\ last = [op |-> "SmallVector(count)", c |-> "a", ret |-> NoArg, threw |-> FALSE,
                     pre_vec |-> FALSE]
          /\ pushed = [c \in Conts |-> IF c = "a" THEN NoLog ELSE <<>>]
       \/ /\ how = "fill"
          /\ \E count \in CtorCounts, v \in Val :
               /\ sv = [c \in Conts |->
                          IF c = "a" THEN Unread(ctor_fill(count, v)) ELSE ctor_default]
               /\ last = [op |-> "SmallVector(count, value)", c |-> "a", ret |-> NoArg, threw |-> FALSE,
                     pre_vec |-> FALSE]
          /\ pushed = [c \in Conts |-> IF c = "a" THEN NoLog ELSE <<>>]
       \/ /\ how = "list"
          /\ \E init \in Seqs(MaxLen) :
               /\ sv = [c \in Conts |->
                          IF c = "a" THEN Unread(ctor_list(init)) ELSE ctor_default]
               /\ last = [op |-> "SmallVector(init)", c |-> "a", ret |-> NoArg, threw |-> FALSE,
                     pre_vec |-> FALSE]
          /\ pushed = [c \in Conts |-> IF c = "a" THEN NoLog ELSE <<>>]

\* Any call but push_back ends the push-only history of its container.
EndLog(c) == pushed' = [pushed EXCEPT ![c] = NoLog]

PushBack(c, v) ==
  /\ Room(c, 1)
  /\ sv' = [sv EXCEPT ![c] = Unread(push_back(sv[c], v))]
  /\ last' = Call("push_back", c, NoArg, FALSE)
  /\ UNCHANGED sized
  /\ pushed' = [pushed EXCEPT ![c] = IF @ = NoLog THEN NoLog ELSE Append(@, v)]

EmplaceBack(c, v) ==
  /\ Room(c, 1)
  /\ sv' = [sv EXCEPT ![c] = Unread(emplace_back(sv[c], v))]
  /\ last' = Call("emplace_back", c, NoArg, FALSE)
  /\ UNCHANGED sized
  /\ EndLog(c)

Insert(c, idx, v) ==
  /\ Room(c, 1)
  /\ ValidPos(sv[c], idx)
  /\ LET r == insert(sv[c], idx, v) IN
       /\ sv' = [sv EXCEPT ![c] = Unread(r.s)]
       /\ last' = Call("insert", c, r.ret, FALSE)
  /\ UNCHANGED sized
  /\ EndLog(c)

Emplace(c, idx, v) ==
  /\ Room(c, 1)
  /\ ValidPos(sv[c], idx)
  /\ LET r == emplace(sv[c], idx, v) IN
       /\ sv' = [sv EXCEPT ![c] = Unread(r.s)]
       /\ last' = Call("emplace", c, r.ret, FALSE)
  /\ UNCHANGED sized
  /\ EndLog(c)

Erase(c, idx) ==
  /\ idx < sv[c].size_
  /\ ValidPos(sv[c], idx + 1)
  /\ LET r == erase(sv[c], idx) IN
       /\ sv' = [sv EXCEPT ![c] = Unread(r.s)]
       /\ last' = Call("erase", c, r.ret, FALSE)
  /\ UNCHANGED sized
  /\ EndLog(c)

EraseRange(c, first_idx, last_idx) ==
  /\ first_idx <= last_idx
  /\ ValidPos(sv[c], last_idx)
  /\ LET r == erase_range(sv[c], first_idx, last_idx) IN
       /\ sv' = [sv EXCEPT ![c] = Unread(r.s)]
       /\ last' = Call("erase_range", c, r.ret, FALSE)
  /\ UNCHANGED sized
  /\ EndLog(c)

PopBack(c) ==
  /\ sv[c].size_ > 0
  /\ ValidPos(sv[c], sv[c].size_)
  /\ sv' = [sv EXCEPT ![c] = Unread(pop_back(sv[c]))]
  /\ last' = Call("pop_back", c, NoArg, FALSE)
  /\ UNCHANGED sized
  /\ EndLog(c)

Clear(c) ==
  /\ sv' = [sv EXCEPT ![c] = Unread(clear(sv[c]))]
  /\ last' = Call("clear", c, NoArg, FALSE)
  /\ UNCHANGED sized
  /\ EndLog(c)

Reserve(c, n) ==
  /\ sv' = [sv EXCEPT ![c] = Unread(reserve(sv[c], n))]
  /\ last' = Call("reserve", c, NoArg, FALSE)
  /\ UNCHANGED sized
  /\ EndLog(c)

ShrinkToFit(c) ==
  /\ sv' = [sv EXCEPT ![c] = Unread(shrink_to_fit(sv[c]))]
  /\ last' = Call("shrink_to_fit", c, NoArg, FALSE)
  /\ UNCHANGED sized
  /\ EndLog(c)

Resize(c, count) ==
  /\ count > max_size \/ Room(c, count - sv[c].size_)
  /\ ValidPos(sv[c], sv[c].size_)
  /\ LET r == resize(sv[c], count) IN
       /\ sv' = [sv EXCEPT ![c] = Unread(r.s)]
       /\ last' = Call("resize", c, NoArg, r.threw)
  /\ UNCHANGED sized
  /\ EndLog(c)

ResizeFill(c, count, v) ==
  /\ count > max_size \/ Room(c, count - sv[c].size_)
  /\ ValidPos(sv[c], sv[c].size_)
  /\ LET r == resize_fill(sv[c], count, v) IN
       /\ sv' = [sv EXCEPT ![c] = Unread(r.s)]
       /\ last' = Call("resize_fill", c, NoArg, r.threw)
  /\ UNCHANGED sized
  /\ EndLog(c)

Other(c) == IF c = "a" THEN "b" ELSE "a"

Swap(c) ==
  /\ RoomPair(0)
  /\ LET r == swap(sv[c], sv[Other(c)]) IN
       sv' = [sv EXCEPT ![c] = Unread(r.self), ![Other(c)] = Unread(r.other)]
  /\ last' = Call("swap", c, NoArg, FALSE)
  /\ UNCHANGED sized
  /\ pushed' = [d \in Conts |-> NoLog]

CopyAssign(c) ==
  /\ RoomPair(sv[Other(c)].size_ - sv[c].size_)
  /\ RoomPair(0)
  /\ sv' = [sv EXCEPT ![c] = Unread(copy_assign(sv[c], sv[Other(c)]))]
  /\ last' = Call("copy_assign", c, NoArg, FALSE)
  /\ UNCHANGED sized
  /\ EndLog(c)

MoveAssign(c) ==
  /\ RoomPair(sv[Other(c)].size_ - sv[c].size_)
  /\ RoomPair(0)
  /\ LET r == move_assign(sv[c], sv[Other(c)]) IN
       sv' = [sv EXCEPT ![c] = Unread(r.self), ![Other(c)] = Unread(r.other)]
  /\ last' = Call("move_assign", c, NoArg, FALSE)
  /\ UNCHANGED sized
  /\ pushed' = [d \in Conts |-> NoLog]

AppendCopy(c) ==
  /\ RoomPair(sv[Other(c)].size_)
  /\ ValidPos(sv[Other(c)], sv[Other(c)].size_)
  /\ sv' = [sv EXCEPT ![c] = Unread(append_copy(sv[c], sv[Other(c)]))]
  /\ last' = Call("append_copy", c, NoArg, FALSE)
  /\ UNCHANGED sized
  /\ EndLog(c)

AppendMove(c) ==
  /\ RoomPair(0)
  /\ ValidPos(sv[Other(c)], sv[Other(c)].size_)
  /\ LET r == append_move(sv[c], sv[Other(c)]) IN
       sv' = [sv EXCEPT ![c] = Unread(r.self), ![Other(c)] = Unread(r.other)]
  /\ last' = Call("append_move", c, NoArg, FALSE)
  /\ UNCHANGED sized
  /\ pushed' = [d \in Conts |-> NoLog]

AppendCopySelf(c) ==
  /\ Room(c, sv[c].size_)
  /\ ValidPos(sv[c], sv[c].size_)
  /\ sv' = [sv EXCEPT ![c] = Unread(append_copy_self(sv[c]))]
  /\ last' = Call("append_copy_self", c, NoArg, FALSE)
  /\ UNCHANGED sized
  /\ EndLog(c)

AppendMoveSelf(c) ==
  /\ sv' = [sv EXCEPT ![c] = Unread(append_move_self(sv[c]))]
  /\ last' = Call("append_move_self", c, NoArg, FALSE)
  /\ UNCHANGED sized
  /\ EndLog(c)

\* Container c is destroyed and a new container is copy-constructed from the
\* other one in its place.
CopyConstruct(c) ==
  /\ RoomPair(sv[Other(c)].size_ - sv[c].size_)
  /\ RoomPair(0)
  /\ sv' = [sv EXCEPT ![c] = Unread(copy_ctor(sv[Other(c)]))]
  /\ last' = Call("SmallVector(const&)", c, NoArg, FALSE)
  /\ UNCHANGED sized
  /\ EndLog(c)

\* Container c is destroyed and a new container is move-constructed from the
\* other one in its place.
MoveConstruct(c) ==
  /\ RoomPair(sv[Other(c)].size_ - sv[c].size_)
  /\ RoomPair(0)
  /\ LET r == move_ctor(sv[Other(c)]) IN
       sv' = [sv EXCEPT ![c] = Unread(r.self), ![Other(c)] = Unread(r.other)]
  /\ last' = Call("SmallVector(&&)", c, NoArg, FALSE)
  /\ UNCHANGED sized
  /\ pushed' = [d \in Conts |-> NoLog]

\* Every member function is called on "a".  "b" is the second operand of the
\* two-container calls; it is filled and emptied by push_back and clear, and
\* takes over any state of "a" through swap and assignment.
Next ==
  \/ \E c \in Conts, v \in Val : PushBack(c, v)
  \/ \E v \in Val : EmplaceBack("a", v)
  \/ \E idx \in 0..MaxLen, v \in Val : Insert("a", idx, v)
  \/ \E idx \in 0..MaxLen, v \in Val : Emplace("a", idx, v)
  \/ \E idx \in 0..MaxLen : Erase("a", idx)
  \/ \E first_idx \in 0..MaxLen, last_idx \in 0..MaxLen :
       EraseRange("a", first_idx, last_idx)
  \/ PopBack("a")
  \/ \E c \in Conts : Clear(c)
  \/ \E n \in 0..MaxLen : Reserve("a", n)
  \/ ShrinkToFit("a")
  \/ \E count \in 0..MaxLen : Resize("a", count)
  \/ \E count \in 0..MaxLen, v \in Val : ResizeFill("a", count, v)
  \/ \E c \in Conts : Swap(c)
  \/ \E c \in Conts : CopyAssign(c)
  \/ \E c \in Conts : MoveAssign(c)
  \/ \E c \in Conts : AppendCopy(c)
  \/ \E c \in Conts : AppendMove(c)
  \/ AppendCopySelf("a")
  \/ AppendMoveSelf("a")
  \/ \E c \in Conts : CopyConstruct(c)
  \/ \E c \in Conts : MoveConstruct(c)

Spec == Init /\ [][Next]_vars

-----------------------------------------------------------------------------
(* What the claims compare the code against: sequences of values.          *)

\* new is old with v put in at index idx and everything from idx on moved up
InsertedAt(old, new, idx, v) ==
  /\ Len(new) = Len(old) + 1
  /\ new[idx + 1] = v
  /\ \A k \in 1..Len(old) : IF k <= idx THEN new[k] = old[k] ELSE new[k + 1] = old[k]

\* new is old without the elements at indices first_idx .. last_idx - 1
RemovedRange(old, new, first_idx, last_idx) ==
  /\ Len(new) = Len(old) - (last_idx - first_idx)
  /\ \A k \in 1..Len(old) :
       /\ k <= first_idx => new[k] = old[k]
       /\ k > last_idx => new[k - (last_idx - first_idx)] = old[k]

\* The positions a caller can form on container S: begin() .. end()
Positions(S) == {idx \in 0..S.size_ : ValidPos(S, idx)}

-----------------------------------------------------------------------------
\* C1 (as stated): a container that is spilled is still spilled after every
\* step, whatever member function the step calls.
C1_NeverInlineAgain ==
  [][\A c \in Conts : is_vector(sv[c]) => is_vector(sv'[c])]_vars

\* The calls that hand container c the storage of the other container: swap,
\* assignment to c, and the construction of a new container in the place of c
TakesOtherStorage(call, c) ==
  \/ call.op = "swap"
  \/ /\ call.op \in {"copy_assign", "move_assign",
                      "SmallVector(const&)", "SmallVector(&&)"}
     /\ call.c = c

\* C1 (amended): a spilled container stays spilled after push_back,
\* emplace_back, insert, emplace, erase, pop_back, clear, resize, reserve,
\* shrink_to_fit and append, as their target or as their argument; after swap,
\* and after copy or move assignment to it, it has the storage mode the other
\* container had before the call.
C1_SpilledUntilExchanged ==
  [][\A c \in Conts :
       is_vector(sv[c]) =>
         IF TakesOtherStorage(last', c)
           THEN is_vector(sv'[c]) = is_vector(sv[Other(c)])
           ELSE is_vector(sv'[c])]_vars

\* A spilled container was emptied by clear() and is still spilled.
C1_Witness ==
  /\ last.op = "clear"
  /\ last.pre_vec
  /\ is_vector(sv[last.c])
  /\ sv[last.c].size_ = 0

-----------------------------------------------------------------------------
\* C2: while a default-constructed container has seen nothing but push_back,
\* its length is the number of pushes, its elements are the pushed values in
\* push order, it is inline iff that number is <= STATIC_AMOUNT, and the push
\* that spilled it is the one that made the length STATIC_AMOUNT + 1.
C2_PushOnly ==
  \A c \in Conts :
    pushed[c] # NoLog =>
      /\ size(sv[c]) = Len(pushed[c])
      /\ Elems(sv[c]) = pushed[c]
      /\ is_array(sv[c]) <=> Len(pushed[c]) <= STATIC_AMOUNT
      /\ is_vector(sv[c]) <=> Len(pushed[c]) > STATIC_AMOUNT
      /\ (last.op = "push_back" /\ last.c = c /\ ~last.pre_vec /\ is_vector(sv[c]))
           => size(sv[c]) = STATIC_AMOUNT + 1

\* push_back alone took a container one past the inline capacity.
C2_Witness ==
  /\ pushed["a"] # NoLog
  /\ Len(pushed["a"]) = STATIC_AMOUNT + 1
  /\ last.op = "push_back" /\ last.c = "a" /\ ~last.pre_vec
  /\ is_vector(sv["a"])

-----------------------------------------------------------------------------
-----------------------------------------------------------------------------
-----------------------------------------------------------------------------
-----------------------------------------------------------------------------
\* C6: in every reachable state, erase(first, last) returns the position
\* first_idx: that of the first element after the removed range in the
\* resulting container, or end() when the range reached the end.
C6_EraseRangeReturn ==
  \A c \in Conts : \A first_idx \in Positions(sv[c]) : \A last_idx \in Positions(sv[c]) :
    first_idx <= last_idx =>
      erase_range(sv[c], first_idx, last_idx).ret = first_idx

-----------------------------------------------------------------------------
\* C7: in every reachable state size() <= capacity(), and size() <=
\* STATIC_AMOUNT while the container is inline.
C7_SizeWithinCapacity ==
  \A c \in Conts :
    /\ size(sv[c]) <= capacity(sv[c])
    /\ is_array(sv[c]) => size(sv[c]) <= STATIC_AMOUNT

-----------------------------------------------------------------------------
\* C8: in every reachable state and for every n, capacity() >= n right after
\* reserve(n).
C8_ReserveGivesCapacity ==
  \A c \in Conts : \A n \in 0..(MaxLen + 1) :
    capacity(reserve(sv[c], n)) >= n

-----------------------------------------------------------------------------
\* C9: in every reachable state and for every n, reserve(n) leaves size() and
\* the element sequence as they were; with n <= STATIC_AMOUNT it changes no
\* member at all; with n > STATIC_AMOUNT an inline container comes out spilled.
C9_ReserveFrame ==
  \A c \in Conts : \A n \in 0..(MaxLen + 1) :
    LET r == reserve(sv[c], n) IN
    /\ size(r) = size(sv[c])
    /\ Elems(r) = Elems(sv[c])
    /\ n <= STATIC_AMOUNT => r = sv[c]
    /\ (n > STATIC_AMOUNT /\ is_array(sv[c])) => is_vector(r)
    /\ is_vector(sv[c]) => is_vector(r)

\* reserve() spilled a container that held elements.
C9_Witness ==
  /\ last.op = "reserve"
  /\ ~last.pre_vec
  /\ is_vector(sv[last.c])
  /\ size(sv[last.c]) > 0

-----------------------------------------------------------------------------
\* C10: in every reachable state size() <= max_size().
C10_SizeWithinMaxSize ==
  \A c \in Conts : size(sv[c]) <= max_size

-----------------------------------------------------------------------------
(* Element lifetimes.  A container is well formed when the objects alive   *)
(* in it are exactly the elements it reports: inline, slots 0..size_-1     *)
(* each hold a live object and the other slots none; spilled, the vector   *)
(* holds size_ elements and no inline slot holds a live object.            *)

WellFormed(S) ==
  IF S.vec_.has
    THEN /\ Len(S.vec_.buf) = S.size_
         /\ \A k \in 1..STATIC_AMOUNT : ~S.arr_[k].live
    ELSE /\ S.size_ <= STATIC_AMOUNT
         /\ \A k \in 1..STATIC_AMOUNT : S.arr_[k].live <=> k <= S.size_

\* The call that produced S lost no live object and destroyed no dead one
NoMarks(S) == \A k \in 1..STATIC_AMOUNT : ~S.arr_[k].over /\ ~S.arr_[k].dead

\* Destroying S destroys each object it holds once and leaves none alive
CleanEnd(S) ==
  LET D == dtor(S) IN
  /\ NoMarks(D)
  /\ \A k \in 1..STATIC_AMOUNT : ~D.arr_[k].live

\* The counts a caller may pass to resize
Counts == 0..(MaxLen + 1)

-----------------------------------------------------------------------------
\* C11: in every reachable state, resize(count) and resize(count, value) with
\* count > max_size() throw the length error and leave the members (length,
\* contents, storage mode, capacity) as they were.
C11_ResizeAboveMaxThrows ==
  \A c \in Conts : \A count \in Counts : \A v \in Val :
    count > max_size =>
      /\ resize(sv[c], count).threw
      /\ resize(sv[c], count).s = sv[c]
      /\ resize_fill(sv[c], count, v).threw
      /\ resize_fill(sv[c], count, v).s = sv[c]

-----------------------------------------------------------------------------
\* C12: in every reachable state and for every index i, at(i) throws exactly
\* when i >= size(); when it does not throw it returns what operator[] returns
\* at i, which is the i-th element (the i-th value pushed, for a container built
\* by push_back alone); the container is the same after the call either way.
C12_AtChecked ==
  \A c \in Conts : \A i \in 0..(MaxLen + 1) :
    LET r == at(sv[c], i) IN
    /\ r.threw <=> i >= size(sv[c])
    /\ r.s = sv[c]
    /\ ~r.threw =>
         /\ r.val = At(sv[c], i)
         /\ r.val = Elems(sv[c])[i + 1]
         /\ pushed[c] # NoLog => r.val = pushed[c][i + 1]

\* A spilled container of STATIC_AMOUNT + 1 pushed elements: at(size) throws,
\* at(size - 1) returns the last value pushed.
C12_Witness ==
  /\ pushed["a"] # NoLog
  /\ is_vector(sv["a"])
  /\ size(sv["a"]) = STATIC_AMOUNT + 1
  /\ at(sv["a"], STATIC_AMOUNT + 1).threw
  /\ ~at(sv["a"], STATIC_AMOUNT).threw
  /\ at(sv["a"], STATIC_AMOUNT).val = pushed["a"][STATIC_AMOUNT + 1]

-----------------------------------------------------------------------------
(* What resize promises: new has count elements, the first min(Len(old),   *)
(* count) of them those of old, the rest equal to fill.                    *)
ResizedTo(old, new, count, fill) ==
  /\ Len(new) = count
  /\ \A k \in 1..count : new[k] = IF k <= Len(old) THEN old[k] ELSE fill

\* A call of resize(count) the caller may make on S: when it shrinks, the
\* range begin() + count .. end() it erases lies in the storage.
MayResize(S, count) == count < S.size_ => ValidPos(S, S.size_)

\* C13: in every reachable state, resize(count) and resize(count, value) with
\* count <= max_size() do not throw and leave size() == count, the first
\* min(old length, count) elements as they were and every added element equal
\* to T() (or to value); a container that was inline is inline afterwards
\* exactly when count <= STATIC_AMOUNT.
C13_ResizeResult ==
  \A c \in Conts : \A count \in Counts : \A v \in Val :
    (count <= max_size /\ MayResize(sv[c], count)) =>
      LET r == resize(sv[c], count)
          f == resize_fill(sv[c], count, v) IN
      /\ ~r.threw /\ ~f.threw
      /\ size(r.s) = count /\ size(f.s) = count
      /\ ResizedTo(Elems(sv[c]), Elems(r.s), count, DefaultT)
      /\ ResizedTo(Elems(sv[c]), Elems(f.s), count, v)
      /\ is_array(sv[c]) =>
           /\ is_array(r.s) <=> count <= STATIC_AMOUNT
           /\ is_array(f.s) <=> count <= STATIC_AMOUNT

-----------------------------------------------------------------------------
\* C14: for every reachable well-formed source (inline or spilled), the
\* container copy-constructed from it, and a well-formed container it is
\* copy-assigned to, has the source's length and element sequence, and owns
\* its elements: the copy lost no object, and over the life of both containers
\* every element object is destroyed once (destroying the copy destroys live
\* objects only and leaves none alive, and so does destroying the source).
C14_CopyIsDeep ==
  \A c \in Conts :
    (WellFormed(sv[c]) /\ WellFormed(sv[Other(c)])) =>
      LET K == copy_ctor(sv[c])
          A == copy_assign(sv[Other(c)], sv[c]) IN
      /\ size(K) = size(sv[c]) /\ Elems(K) = Elems(sv[c])
      /\ size(A) = size(sv[c]) /\ Elems(A) = Elems(sv[c])
      /\ CleanEnd(K) /\ CleanEnd(A) /\ CleanEnd(sv[c])

-----------------------------------------------------------------------------
\* C15: for every reachable well-formed source X (inline or spilled), after
\* move construction from X, and after move assignment of X to a well-formed
\* container, the destination holds X's former sequence, X has size() == 0
\* and is empty(), and no element belongs to both: destroying the two
\* containers destroys every element object once.
C15_MoveLeavesSourceEmpty ==
  \A c \in Conts :
    (WellFormed(sv[c]) /\ WellFormed(sv[Other(c)])) =>
      LET K == move_ctor(sv[c])
          A == move_assign(sv[Other(c)], sv[c]) IN
      /\ Elems(K.self) = Elems(sv[c]) /\ Elems(A.self) = Elems(sv[c])
      /\ size(K.other) = 0 /\ empty(K.other)
      /\ size(A.other) = 0 /\ empty(A.other)
      /\ CleanEnd(K.self) /\ CleanEnd(K.other)
      /\ CleanEnd(A.self) /\ CleanEnd(A.other)

-----------------------------------------------------------------------------
\* A call on one container left it well formed, lost no live object and
\* destroyed no dead one.
Sound(R) == NoMarks(R) /\ WellFormed(R)

\* C16: constructors build well-formed containers, and from every reachable
\* well-formed container each of push_back, emplace_back, insert, emplace,
\* erase(pos), erase(first, last), pop_back, resize, reserve, shrink_to_fit
\* and clear constructs and destroys objects in pairs (it loses no live object,
\* destroys no dead one and leaves the container well formed), and destroying
\* the container destroys every object it holds once and leaves none alive.
C16_EveryElementDestroyedOnce ==
  /\ (last.op \in {"SmallVector()", "SmallVector(count)",
                   "SmallVector(count, value)", "SmallVector(init)"})
       => WellFormed(sv[last.c])
  /\ \A c \in Conts :
       WellFormed(sv[c]) =>
         LET S == sv[c] IN
         /\ CleanEnd(S)
         /\ Sound(clear(S)) /\ Sound(shrink_to_fit(S))
         /\ S.size_ > 0 => Sound(pop_back(S))
         /\ \A n \in Counts :
              /\ Sound(reserve(S, n))
              /\ n <= max_size => Sound(resize(S, n).s)
         /\ \A v \in Val :
              /\ Sound(push_back(S, v)) /\ Sound(emplace_back(S, v))
              /\ \A n \in Counts : n <= max_size => Sound(resize_fill(S, n, v).s)
              /\ \A idx \in Positions(S) :
                   Sound(insert(S, idx, v).s) /\ Sound(emplace(S, idx, v).s)
         /\ \A idx \in Positions(S) :
              /\ idx < S.size_ => Sound(erase(S, idx).s)
              /\ \A last_idx \in Positions(S) :
                   idx <= last_idx => Sound(erase_range(S, idx, last_idx).s)

-----------------------------------------------------------------------------
\* C17: in every reachable state, appending a container to itself through
\* append(const SmallVector&) or through append(SmallVector&&) leaves its
\* length, its element sequence and its storage mode as they were.
C17_SelfAppendIsNoOp ==
  \A c \in Conts :
    ValidPos(sv[c], sv[c].size_) =>
      LET K == append_copy_self(sv[c])
          M == append_move_self(sv[c]) IN
      /\ size(K) = size(sv[c]) /\ Elems(K) = Elems(sv[c])
      /\ is_vector(K) = is_vector(sv[c])
      /\ size(M) = size(sv[c]) /\ Elems(M) = Elems(sv[c])
      /\ is_vector(M) = is_vector(sv[c])

-----------------------------------------------------------------------------
\* A call a.append(b) the caller may make: b.begin() .. b.end() is a range of
\* b's storage.
MayAppend(O) == ValidPos(O, O.size_)

\* C18: in every reachable state, for the two distinct containers in either
\* order, a.append(b) by copy makes a its former sequence followed by b's
\* (so the last b.size() elements of a equal b's), leaves b as it was, and
\* leaves an inline a inline exactly when the combined length is at most
\* STATIC_AMOUNT.
C18_AppendCopy ==
  \A c \in Conts :
    MayAppend(sv[Other(c)]) =>
      LET a == sv[c]
          b == sv[Other(c)]
          R == append_copy(a, b) IN
      /\ size(R) = size(a) + size(b)
      /\ Elems(R) = Elems(a) \o Elems(b)
      /\ \A k \in 1..size(b) : Elems(R)[size(R) - size(b) + k] = Elems(b)[k]
      /\ is_array(a) => (is_array(R) <=> size(a) + size(b) <= STATIC_AMOUNT)

\* C19: in every reachable state, for the two distinct containers in either
\* order, a.append(std::move(b)) makes a its former sequence followed by b's
\* former sequence, leaves b with length 0, and leaves a spilled exactly when
\* it was spilled or the combined length exceeds STATIC_AMOUNT.
C19_AppendMove ==
  \A c \in Conts :
    MayAppend(sv[Other(c)]) =>
      LET a == sv[c]
          b == sv[Other(c)]
          R == append_move(a, b) IN
      /\ size(R.self) = size(a) + size(b)
      /\ Elems(R.self) = Elems(a) \o Elems(b)
      /\ size(R.other) = 0
      /\ is_vector(R.self) <=> (is_vector(a) \/ size(a) + size(b) > STATIC_AMOUNT)

-----------------------------------------------------------------------------
\* C20: in every reachable state, clear() leaves size() == 0 and empty() true
\* and the storage mode and capacity() as before: inline with capacity
\* STATIC_AMOUNT, or spilled with the vector's capacity.
C20_ClearKeepsStorage ==
  \A c \in Conts :
    LET R == clear(sv[c]) IN
    /\ size(R) = 0 /\ empty(R)
    /\ is_vector(R) = is_vector(sv[c])
    /\ capacity(R) = capacity(sv[c])
    /\ is_array(sv[c]) => capacity(R) = STATIC_AMOUNT

\* clear() has emptied a spilled container that keeps a heap capacity above
\* the inline capacity.
C20_Witness ==
  /\ last.op = "clear" /\ last.c = "a" /\ last.pre_vec
  /\ empty(sv["a"]) /\ is_vector(sv["a"])
  /\ capacity(sv["a"]) > STATIC_AMOUNT

-----------------------------------------------------------------------------
\* C21: in every reachable state, for the two containers in either order and
\* for each with itself, operator== is true exactly when the lengths agree and
\* the elements agree index by index, whatever the storage modes and
\* capacities, and operator!= is its negation; two containers built by
\* push_back alone are equal exactly when the same values were pushed.
C21_EqualIffSameSequence ==
  \A c \in Conts : \A d \in Conts :
    LET a == sv[c]
        b == sv[d] IN
    /\ operator_eq(a, b) <=>
         /\ size(a) = size(b)
         /\ \A k \in 1..size(a) : Elems(a)[k] = Elems(b)[k]
    /\ operator_ne(a, b) <=> ~operator_eq(a, b)
    /\ (pushed[c] # NoLog /\ pushed[d] # NoLog) =>
         (operator_eq(a, b) <=> pushed[c] = pushed[d])

\* A spilled container and an inline one hold the same non-empty sequence
\* and compare equal.
C21_Witness ==
  /\ is_vector(sv["a"]) /\ is_array(sv["b"])
  /\ size(sv["a"]) > 0
  /\ capacity(sv["a"]) # capacity(sv["b"])
  /\ pushed["b"] # NoLog /\ Elems(sv["a"]) = pushed["b"]
  /\ operator_eq(sv["a"], sv["b"]) /\ ~operator_ne(sv["b"], sv["a"])

-----------------------------------------------------------------------------
\* What a caller observes of a container: length, elements, capacity, mode
Observable(S) == <<size(S), Elems(S), capacity(S), is_vector(S)>>

\* C22: in every reachable state, for the two containers in either order,
\* a.swap(b) leaves a with b's former length, element sequence and capacity
\* and b with a's, whatever the storage modes, and a second a.swap(b) gives
\* both containers back what a caller observed of them before the first.
C22_SwapExchanges ==
  \A c \in Conts :
    LET a  == sv[c]
        b  == sv[Other(c)]
        r  == swap(a, b)
        rr == swap(r.self, r.other) IN
    /\ size(r.self) = size(b) /\ Elems(r.self) = Elems(b)
    /\ capacity(r.self) = capacity(b)
    /\ size(r.other) = size(a) /\ Elems(r.other) = Elems(a)
    /\ capacity(r.other) = capacity(a)
    /\ Observable(rr.self) = Observable(a)
    /\ Observable(rr.other) = Observable(b)

\* swap has just exchanged a spilled container and a non-empty inline one of
\* a different length.
C22_Witness ==
  /\ last.op = "swap" /\ last.c = "a"
  /\ last.pre_vec /\ is_array(sv["a"]) /\ is_vector(sv["b"])
  /\ size(sv["a"]) > 0
  /\ size(sv["b"]) > size(sv["a"])

-----------------------------------------------------------------------------
\* A container built from an empty one by push_back of the values of seq
RECURSIVE BuiltByPushBack(_, _, _)
BuiltByPushBack(S, seq, i) ==
  IF i <= Len(seq) THEN BuiltByPushBack(push_back(S, seq[i]), seq, i + 1) ELSE S

\* A container built from an empty one by insert(end(), v) of the values of seq
RECURSIVE BuiltByInsertAtEnd(_, _, _)
BuiltByInsertAtEnd(S, seq, i) ==
  IF i <= Len(seq)
    THEN BuiltByInsertAtEnd(insert(S, S.size_, seq[i]).s, seq, i + 1)
    ELSE S

\* C23: in every reachable state, end() is a position insert accepts, and
\* insert(end(), v) and push_back(v) give the same length, element sequence
\* and storage mode; a container built by push_back of a sequence and one
\* built by insert at end() of the same sequence have the same length,
\* elements and mode, for sequences shorter and longer than STATIC_AMOUNT.
C23_InsertAtEndIsPushBack ==
  /\ \A seq \in Seqs(MaxLen) :
       LET p == BuiltByPushBack(ctor_default, seq, 1)
           i == BuiltByInsertAtEnd(ctor_default, seq, 1) IN
       /\ size(p) = size(i) /\ Elems(p) = Elems(i) /\ Elems(p) = seq
       /\ is_vector(p) = is_vector(i)
  /\ \A c \in Conts : \A v \in Val :
       /\ ValidPos(sv[c], sv[c].size_)
       /\ LET i == insert(sv[c], sv[c].size_, v).s
              p == push_back(sv[c], v) IN
          /\ size(i) = size(p) /\ Elems(i) = Elems(p)
          /\ is_vector(i) = is_vector(p)

-----------------------------------------------------------------------------
\* C24: in every reachable state with size() > 0, in either storage mode,
\* pop_back() is a defined call (end() - 1 is a position of the storage) that
\* reduces the length by one, removes the last element and leaves the
\* elements before it and the storage mode as they were.
C24_PopBackRemovesLast ==
  \A c \in Conts :
    size(sv[c]) > 0 =>
      /\ ValidPos(sv[c], sv[c].size_)
      /\ LET R == pop_back(sv[c]) IN
         /\ size(R) = size(sv[c]) - 1
         /\ Elems(R) = SubSeq(Elems(sv[c]), 1, size(sv[c]) - 1)
         /\ is_vector(R) = is_vector(sv[c])

-----------------------------------------------------------------------------
\* The calls that construct a container from values
Constructors ==
  {"SmallVector()", "SmallVector(count)", "SmallVector(count, value)",
   "SmallVector(init)"}

\* C25: SmallVector() is empty, inline and of capacity STATIC_AMOUNT;
\* SmallVector(count) and SmallVector(count, value) with count <= max_size()
\* have length count and every element equal to T() or to value;
\* SmallVector(init) holds the values of the list in list order; each is
\* inline exactly when its length is at most STATIC_AMOUNT.  The same holds of
\* the container in every state a constructor has just produced.
C25_Constructed ==
  /\ empty(ctor_default) /\ size(ctor_default) = 0
  /\ is_array(ctor_default) /\ capacity(ctor_default) = STATIC_AMOUNT
  /\ \A count \in CtorCounts :
       /\ size(ctor_count(count)) = count
       /\ Elems(ctor_count(count)) = [k \in 1..count |-> DefaultT]
       /\ is_array(ctor_count(count)) <=> count <= STATIC_AMOUNT
       /\ \A v \in Val :
            /\ size(ctor_fill(count, v)) = count
            /\ Elems(ctor_fill(count, v)) = [k \in 1..count |-> v]
            /\ is_array(ctor_fill(count, v)) <=> count <= STATIC_AMOUNT
  /\ \A init \in Seqs(MaxLen) :
       /\ size(ctor_list(init)) = Len(init)
       /\ Elems(ctor_list(init)) = init
       /\ is_array(ctor_list(init)) <=> Len(init) <= STATIC_AMOUNT
  /\ last.op \in Constructors =>
       /\ is_array(sv[last.c]) <=> size(sv[last.c]) <= STATIC_AMOUNT
       /\ is_array(sv[last.c]) => capacity(sv[last.c]) = STATIC_AMOUNT
       /\ last.op = "SmallVector()" => empty(sv[last.c])
       /\ last.op = "SmallVector(count)" =>
            \A k \in 1..size(sv[last.c]) : Elems(sv[last.c])[k] = DefaultT
       /\ last.op = "SmallVector(count, value)" =>
            \E v \in Val : \A k \in 1..size(sv[last.c]) : Elems(sv[last.c])[k] = v

\* SmallVector(count, value) has built a spilled container of
\* STATIC_AMOUNT + 1 copies of a value other than T().
C25_Witness ==
  /\ last.op = "SmallVector(count, value)"
  /\ is_vector(sv["a"])
  /\ Elems(sv["a"]) = [k \in 1..(STATIC_AMOUNT + 1) |-> 1]

-----------------------------------------------------------------------------
\* C26: in every reachable state, shrink_to_fit() leaves size(), the element
\* sequence and the storage mode as they were; on an inline container it
\* changes no member; on a spilled container capacity() afterwards is at
\* least size() and at most the capacity before; a second shrink_to_fit()
\* gives the same capacity as the first; and clear() on a container whose
\* size() is 0 changes no member.
C26_ShrinkToFit ==
  \A c \in Conts :
    LET S  == sv[c]
        R  == shrink_to_fit(S)
        RR == shrink_to_fit(R) IN
    /\ size(R) = size(S) /\ Elems(R) = Elems(S)
    /\ is_vector(R) = is_vector(S)
    /\ is_array(S) => R = S
    /\ is_vector(S) => (capacity(R) >= size(R) /\ capacity(R) <= capacity(S))
    /\ capacity(RR) = capacity(R)
    /\ empty(S) => clear(S) = S

-----------------------------------------------------------------------------
(* The default inline capacity, evaluated for every element size            *)

\* Every nonzero value of size_t: sizeof(T) is never 0
ElementSizes == 1..(SizeTMod - 1)

SizeInit ==
  /\ sv = [c \in Conts |-> ctor_default]
  /\ last = Call("SmallVector()", "a", NoArg, FALSE)
  /\ pushed = [c \in Conts |-> <<>>]
  /\ sized \in [size_of_t : ElementSizes, N : {0}]

\* size_t STATIC_AMOUNT = calculate_static_size(sizeof(T)), the default
\* template argument
Calculate ==
  /\ sized.N = 0
  /\ sized' = [sized EXCEPT !.N = calculate_static_size(sized.size_of_t)]
  /\ UNCHANGED <<sv, last, pushed>>

SizeNext == Calculate

SizeSpec == SizeInit /\ [][SizeNext]_vars

\* The evaluation has returned
Calculated == sized.N # 0

\* C27 as stated: for every element size s >= 1 the inline region of
\* N = calculate_static_size(s) elements takes at most MAX_SIZE_BYTES bytes.
C27_RegionWithinLimit ==
  Calculated => sized.N * sized.size_of_t <= MAX_SIZE_BYTES

\* C27, amended: for every element size s with 1 <= s <= MAX_SIZE_BYTES the
\* inline region of N = calculate_static_size(s) elements takes at most
\* MAX_SIZE_BYTES bytes; a larger element still gets at least one slot.
C27_RegionWithinLimitIfElementFits ==
  Calculated =>
    /\ sized.size_of_t <= MAX_SIZE_BYTES =>
         sized.N * sized.size_of_t <= MAX_SIZE_BYTES
    /\ sized.size_of_t > MAX_SIZE_BYTES => sized.N >= 1

\* An element size for which the cap at MAX_SIZE_BYTES lowers the capacity
C27_Witness ==
  /\ Calculated
  /\ sized.size_of_t * FALLBACK_SIZE > MAX_SIZE_BYTES
  /\ sized.size_of_t <= MAX_SIZE_BYTES
  /\ sized.N < FALLBACK_SIZE
  /\ sized.N * sized.size_of_t <= MAX_SIZE_BYTES

Max(x, y) == IF x >= y THEN x ELSE y

\* C28: calculate_static_size(s) is at least 1; for s <= 64 it is
\* floor(64 / s), the most elements that fit one cache line; for
\* 64 < s <= 1280 it is 8; for s > 1280 it is max(1, floor(10240 / s)).
C28_PiecewiseValue ==
  Calculated =>
    LET s == sized.size_of_t
        N == sized.N IN
    /\ N >= 1
    /\ s <= CACHE_LINE_SIZE_BYTES =>
         /\ N = CACHE_LINE_SIZE_BYTES \div s
         /\ N * s <= CACHE_LINE_SIZE_BYTES
         /\ (N + 1) * s > CACHE_LINE_SIZE_BYTES
    /\ (s > CACHE_LINE_SIZE_BYTES /\ s <= MAX_SIZE_BYTES \div FALLBACK_SIZE) =>
         N = FALLBACK_SIZE
    /\ s > MAX_SIZE_BYTES \div FALLBACK_SIZE =>
         N = Max(1, MAX_SIZE_BYTES \div s)

-----------------------------------------------------------------------------
Reverse(q) == [k \in 1..Len(q) |-> q[Len(q) + 1 - k]]

\* C29: in every reachable state and both storage modes end() - begin() is
\* size(); the traversal from begin() to end() visits the elements at
\* indices 0 .. size() - 1 in that order, the traversal from rbegin() to
\* rend() visits them in the opposite order, and data()[i] is the element at
\* index i for every i < size().  The element at index i is what
\* operator[](i) gives; for a container filled by push_back alone it is the
\* i-th value pushed.
C29_IteratorsCoverElements ==
  \A c \in Conts :
    LET S == sv[c] IN
    /\ Distance(end(S), begin(S)) = size(S)
    /\ Traverse(S, begin(S), end(S)) = Elems(S)
    /\ ReverseTraverse(S, rbegin(S), rend(S)) = Reverse(Elems(S))
    /\ \A i \in 0..(size(S) - 1) : Deref(S, Advance(data(S), i)) = At(S, i)
    /\ pushed[c] # NoLog =>
         /\ Traverse(S, begin(S), end(S)) = pushed[c]
         /\ ReverseTraverse(S, rbegin(S), rend(S)) = Reverse(pushed[c])
         /\ \A i \in 0..(size(S) - 1) :
              Deref(S, Advance(data(S), i)) = pushed[c][i + 1]

\* A spilled container filled by push_back, traversed both ways, whose first
\* and last elements differ
C29_Witness ==
  LET S == sv["a"] IN
  /\ pushed["a"] # NoLog /\ is_vector(S)
  /\ size(S) = STATIC_AMOUNT + 1
  /\ Distance(end(S), begin(S)) = STATIC_AMOUNT + 1
  /\ Traverse(S, begin(S), end(S)) = pushed["a"]
  /\ ReverseTraverse(S, rbegin(S), rend(S)) = Reverse(pushed["a"])
  /\ Deref(S, Advance(data(S), STATIC_AMOUNT)) = pushed["a"][STATIC_AMOUNT + 1]
  /\ pushed["a"][1] # pushed["a"][STATIC_AMOUNT + 1]

-----------------------------------------------------------------------------
\* C30: after every public operation, an inline container has one live
\* element in each of the inline slots 0 .. length - 1 and none in the slots
\* length .. N - 1; a spilled container has no live element in any inline
\* slot and all its elements in the heap buffer.
C30_SlotsMatchLength ==
  \A c \in Conts :
    LET S == sv[c] IN
    /\ is_array(S) =>
         /\ size(S) <= STATIC_AMOUNT
         /\ \A i \in 0..(STATIC_AMOUNT - 1) : S.arr_[i + 1].live <=> i < size(S)
    /\ is_vector(S) =>
         /\ \A i \in 0..(STATIC_AMOUNT - 1) : ~S.arr_[i + 1].live
         /\ Len(S.vec_.buf) = size(S)

-----------------------------------------------------------------------------
\* The calls of spillover that one public call on S makes: the members at the
\* call, the capacity passed, and the number of elements the caller is about
\* to hold.  reserve(n) is reached from resize, append and the constructors
\* as well; push_back and emplace_back pass size_ + 1; insert and emplace
\* have incremented size_ before they pass it.
SpilloverCalls(S) ==
  IF S.vec_.has THEN {}
  ELSE {[at |-> S, capacity |-> n, need |-> n, by |-> "reserve"] :
          n \in (STATIC_AMOUNT + 1)..(MaxLen + 1)}
       \cup (IF S.size_ >= STATIC_AMOUNT
               THEN {[at |-> S, capacity |-> S.size_ + 1, need |-> S.size_ + 1,
                      by |-> "push_back"]}
               ELSE {})
       \cup (IF S.size_ + 1 > STATIC_AMOUNT
               THEN {[at |-> [S EXCEPT !.size_ = @ + 1], capacity |-> S.size_ + 1,
                      need |-> S.size_ + 1, by |-> "insert"]}
               ELSE {})

\* The values of the live inline elements of S, in slot order
RECURSIVE LiveInline(_, _)
LiveInline(S, i) ==
  IF i >= STATIC_AMOUNT THEN <<>>
  ELSE (IF S.arr_[i + 1].live THEN <<S.arr_[i + 1].val>> ELSE <<>>)
         \o LiveInline(S, i + 1)

\* The inline slots the loop of spillover reads
SpilloverReads(S) ==
  {i \in 0..(STATIC_AMOUNT - 1) : i < S.size_}

\* C31: whenever spillover runs, the heap buffer afterwards holds exactly the
\* elements that were live inline, in the same order, its capacity is at
\* least the capacity requested, every formerly live inline slot has been
\* destroyed exactly once, and no inline slot without a live element was
\* read or destroyed, also when insert or emplace has incremented size_ to
\* STATIC_AMOUNT + 1 before the call.
C31_SpilloverMovesLiveElements ==
  \A c \in Conts : \A call \in SpilloverCalls(sv[c]) :
    LET P == call.at
        R == spillover(P, call.capacity) IN
    /\ R.vec_.has
    /\ R.vec_.buf = LiveInline(P, 0)
    /\ R.vec_.cap >= call.capacity
    /\ \A i \in SpilloverReads(P) : P.arr_[i + 1].live
    /\ \A i \in 0..(STATIC_AMOUNT - 1) :
         /\ ~R.arr_[i + 1].live
         /\ ~R.arr_[i + 1].dead /\ ~R.arr_[i + 1].over

-----------------------------------------------------------------------------
\* assert(!vec_); assert(capacity >= STATIC_AMOUNT);
spillover_asserts(S, cap) ==
  ~S.vec_.has /\ cap >= STATIC_AMOUNT

\* C32: on every call of spillover reachable through the public interface
\* both of its assertions hold, and the call is made only when the calling
\* operation needs capacity for more than STATIC_AMOUNT elements.  The calls
\* are those of SpilloverCalls: reserve, push_back, emplace_back, insert and
\* emplace take an inline container to a spilled one exactly when they make
\* such a call, and the result is that of the call.
C32_SpilloverAssertionsHold ==
  \A c \in Conts :
    LET S == sv[c]
        Calls == SpilloverCalls(S) IN
    /\ \A call \in Calls :
         /\ spillover_asserts(call.at, call.capacity)
         /\ call.need > STATIC_AMOUNT
    /\ is_vector(S) => Calls = {}
    /\ is_array(S) =>
         /\ \A n \in 0..(MaxLen + 1) :
              is_vector(reserve(S, n)) <=>
                \E call \in Calls :
                  /\ call.by = "reserve" /\ call.capacity = n
                  /\ reserve(S, n) = spillover(call.at, n)
         /\ \A v \in Val :
              /\ is_vector(push_back(S, v)) <=>
                   \E call \in Calls :
                     /\ call.by = "push_back"
                     /\ push_back(S, v) =
                          [spillover(call.at, call.capacity)
                             EXCEPT !.vec_ = VecPushBack(@, v), !.size_ = @ + 1]
              /\ is_vector(emplace_back(S, v)) <=>
                   \E call \in Calls :
                     /\ call.by = "push_back"
                     /\ emplace_back(S, v) =
                          [spillover(call.at, call.capacity)
                             EXCEPT !.vec_ = VecPushBack(@, v), !.size_ = @ + 1]
              /\ \A idx \in 0..S.size_ :
                   /\ is_vector(insert(S, idx, v).s) <=>
                        \E call \in Calls :
                          /\ call.by = "insert"
                          /\ insert(S, idx, v).s =
                               [spillover(call.at, call.capacity)
                                  EXCEPT !.vec_ = VecInsert(@, idx, v)]
                   /\ is_vector(emplace(S, idx, v).s) <=>
                        \E call \in Calls :
                          /\ call.by = "insert"
                          /\ emplace(S, idx, v).s =
                               [spillover(call.at, call.capacity)
                                  EXCEPT !.vec_ = VecInsert(@, idx, v)]

\* A full inline container, which reserve, push_back and insert each spill,
\* beside one that an insert has just spilled
C32_Witness ==
  /\ \E c \in Conts :
       /\ is_array(sv[c]) /\ size(sv[c]) = STATIC_AMOUNT
       /\ {call.by : call \in SpilloverCalls(sv[c])} = {"reserve", "push_back", "insert"}
       /\ is_vector(insert(sv[c], 0, 1).s)
  /\ last.op \in {"insert", "push_back", "reserve"}
  /\ ~last.pre_vec /\ is_vector(sv[last.c])

-----------------------------------------------------------------------------
\* What a call did in the inline slots of its result R, summed over the slots
RECURSIVE Built(_, _)
Built(R, i) ==
  IF i >= STATIC_AMOUNT THEN 0 ELSE R.arr_[i + 1].built + Built(R, i + 1)

RECURSIVE Moved(_, _)
Moved(R, i) ==
  IF i >= STATIC_AMOUNT THEN 0 ELSE R.arr_[i + 1].moved + Moved(R, i + 1)

RECURSIVE Ended(_, _)
Ended(R, i) ==
  IF i >= STATIC_AMOUNT THEN 0 ELSE R.arr_[i + 1].ended + Ended(R, i + 1)

\* C33: in inline mode erase(pos) at index i of a container of length n
\* performs exactly 1 + (n - 1 - i) destructions and n - 1 - i move
\* constructions; erase(first, last) performs exactly
\* (last - first) + (n - last) destructions and moves each of the n - last
\* trailing elements exactly once.
C33_EraseCounts ==
  \A c \in Conts :
    LET S == sv[c]
        n == S.size_ IN
    (is_array(S) /\ n <= STATIC_AMOUNT) =>
      /\ \A i \in 0..(n - 1) :
           LET R == erase(S, i).s IN
           /\ Ended(R, 0) = 1 + (n - 1 - i)
           /\ Moved(R, 0) = n - 1 - i
           /\ Built(R, 0) = Moved(R, 0)
      /\ \A first \in 0..n : \A lst \in first..n :
           LET R == erase_range(S, first, lst).s IN
           /\ Ended(R, 0) = (lst - first) + (n - lst)
           /\ Moved(R, 0) = n - lst
           /\ Built(R, 0) = Moved(R, 0)
           /\ \A j \in lst..(n - 1) : R.arr_[j + 1].ended = 1
           /\ \A j \in 0..(n - 1) : R.arr_[j + 1].moved <= 1

\* A full inline container whose first element is erased, by erase(pos) and
\* by erase(first, last): every other element is shifted
C33_Witness ==
  LET S == sv["a"] IN
  /\ is_array(S) /\ size(S) = STATIC_AMOUNT /\ WellFormed(S)
  /\ Moved(erase(S, 0).s, 0) = STATIC_AMOUNT - 1
  /\ Ended(erase(S, 0).s, 0) = STATIC_AMOUNT
  /\ Moved(erase_range(S, 0, 1).s, 0) = STATIC_AMOUNT - 1
  /\ Elems(erase(S, 0).s) = Elems(erase_range(S, 0, 1).s)

-----------------------------------------------------------------------------
(* The earlier header src/vec.hpp (its first class definition)              *)

\* erase(first, last) of src/vec.hpp: the inline shift loop starts at
\* last_idx + 1
vec_hpp_erase_range(S, first_idx, last_idx) ==
  IF S.vec_.has
    THEN [s   |-> [S EXCEPT !.vec_ = VecEraseRange(@, first_idx, last_idx),
                            !.size_ = @ - (last_idx - first_idx)],
          ret |-> first_idx]
    ELSE LET diff == last_idx - first_idx
             S1 == [S EXCEPT
                      !.arr_ = erase_shift(destroy_range(@, first_idx, last_idx),
                                           last_idx + 1, S.size_, diff),
                      !.size_ = @ - (last_idx - first_idx)] IN
         [s   |-> S1,
          ret |-> IF last_idx = S1.size_ THEN S1.size_ ELSE last_idx]

\* C34: the inline branch of erase(first, last) in src/vec.hpp shifts every
\* trailing element, starting from last_index, down by
\* last_index - first_index, so that for every inline container and every
\* range it produces the same resulting sequence as the implementation in
\* src/unnamed/part_002.
C34_VecHppEraseRangeAgrees ==
  \A c \in Conts :
    LET S == sv[c]
        n == S.size_ IN
    (is_array(S) /\ WellFormed(S)) =>
      \A first \in 0..n : \A lst \in first..n :
        LET V == vec_hpp_erase_range(S, first, lst).s
            R == erase_range(S, first, lst).s IN
        /\ size(V) = size(R)
        /\ Elems(V) = Elems(R)
        /\ \A i \in 0..(size(V) - 1) : V.arr_[i + 1].live

-----------------------------------------------------------------------------
\* SmallVector(size_t count) of src/vec.hpp: reserve(count), then count times
\* push_back(T()).  reserve and push_back of src/vec.hpp are, line for line,
\* those modelled above.
vec_hpp_ctor_count(count) ==
  fill_loop(reserve(ctor_default, count), count, DefaultT)

\* ~SmallVector() {} of src/vec.hpp: the body is empty; then the members are
\* destroyed: vec_ destroys its vector with the elements in it, arr_ is bytes.
vec_hpp_dtor(S) == [S EXCEPT !.vec_ = NoVec]

\* No element is left alive, in either storage
AllDestroyed(D) ==
  /\ ~D.vec_.has
  /\ \A i \in 0..(STATIC_AMOUNT - 1) : ~D.arr_[i + 1].live

\* C35: in src/vec.hpp, destroying a container destroys every live element
\* it holds, in inline mode as well as in spilled mode: a container built by
\* the count constructor, or by push_back on a default-constructed one, has
\* no live element left once it is destroyed.
C35_VecHppDestructorDestroysAll ==
  /\ \A count \in CtorCounts : AllDestroyed(vec_hpp_dtor(vec_hpp_ctor_count(count)))
  /\ \A c \in Conts :
       pushed[c] # NoLog => AllDestroyed(vec_hpp_dtor(sv[c]))

-----------------------------------------------------------------------------
\* R is S with one element constructed in slot size_ and nothing else touched
OneBuiltAtEnd(S, R, v) ==
  /\ is_array(R)
  /\ R.size_ = S.size_ + 1
  /\ \A i \in 0..(STATIC_AMOUNT - 1) :
       IF i = S.size_
         THEN /\ R.arr_[i + 1].live /\ R.arr_[i + 1].val = v
              /\ R.arr_[i + 1].built = 1 /\ R.arr_[i + 1].ended = 0
              /\ ~R.arr_[i + 1].over
         ELSE R.arr_[i + 1] = S.arr_[i + 1]
  /\ Built(R, 0) = 1 /\ Ended(R, 0) = 0

\* C36: push_back and emplace_back on an inline container of length < N
\* construct exactly one new element, in slot length, move, copy or destroy
\* none of the existing elements and increment the length by one;
\* emplace_back performs no move construction, push_back of a temporary
\* exactly one.
C36_PushBackInPlace ==
  \A c \in Conts : \A v \in Val :
    LET S == sv[c] IN
    (is_array(S) /\ size(S) < STATIC_AMOUNT) =>
      /\ OneBuiltAtEnd(S, push_back(S, v), v)
      /\ Moved(push_back(S, v), 0) = 1
      /\ OneBuiltAtEnd(S, emplace_back(S, v), v)
      /\ Moved(emplace_back(S, v), 0) = 0

\* An inline container with an element and a free slot behind it, on which
\* push_back and emplace_back differ only in the move construction
C36_Witness ==
  LET S == sv["a"] IN
  /\ is_array(S) /\ size(S) >= 1 /\ size(S) < STATIC_AMOUNT /\ WellFormed(S)
  /\ Moved(push_back(S, 1), 0) = 1
  /\ Moved(emplace_back(S, 1), 0) = 0
  /\ Elems(push_back(S, 1)) = Elems(emplace_back(S, 1))

-----------------------------------------------------------------------------
\* C37: erase(first, last) with first == last, at any position 0 .. length
\* of an inline or spilled container, is a no-op: no element is destroyed or
\* moved, length, contents and mode are unchanged, and the position returned
\* is that of first.
C37_EmptyRangeEraseIsNoOp ==
  \A c \in Conts :
    LET S == sv[c] IN
    \A idx \in 0..size(S) :
      ValidPos(S, idx) =>
        LET r == erase_range(S, idx, idx) IN
        /\ r.ret = idx
        /\ size(r.s) = size(S) /\ Elems(r.s) = Elems(S)
        /\ is_vector(r.s) = is_vector(S)
        /\ Built(r.s, 0) = 0 /\ Moved(r.s, 0) = 0 /\ Ended(r.s, 0) = 0
        /\ r.s = S

-----------------------------------------------------------------------------
\* C38: whenever a container is spilled, the length it reports, size(), is
\* the number of elements its heap buffer holds, after every public
\* operation, for the source and the destination of a copy or move alike.
C38_SpilledSizeIsVectorLength ==
  \A c \in Conts :
    is_vector(sv[c]) => size(sv[c]) = Len(sv[c].vec_.buf)

-----------------------------------------------------------------------------
(* The loops, by their headers alone.  The index is a size_t: it is kept    *)
(* modulo SizeTMod.  A loop is followed for at most MaxSteps + 1            *)
(* iterations, more than any loop on a container of the lengths modelled    *)
(* may take.                                                                *)

MaxSteps == MaxLen + 2

SizeT(x) == x % SizeTMod

\* a down-counting loop whose condition is i >= stop
RECURSIVE LoopDownInclusive(_, _, _)
LoopDownInclusive(i, stop, k) ==
  IF i >= stop /\ k <= MaxSteps
    THEN LoopDownInclusive(SizeT(i - 1), stop, k + 1)
    ELSE k

\* for (size_t i = ...; i > stop; --i): the number of iterations, counted in k
RECURSIVE LoopDown(_, _, _)
LoopDown(i, stop, k) ==
  IF i > stop /\ k <= MaxSteps
    THEN LoopDown(SizeT(i - 1), stop, k + 1)
    ELSE k

\* for (size_t i = ...; i < n; ++i): the number of iterations, counted in k
RECURSIVE LoopUp(_, _, _)
LoopUp(i, n, k) ==
  IF i < n /\ k <= MaxSteps
    THEN LoopUp(SizeT(i + 1), n, k + 1)
    ELSE k

Min(x, y) == IF x <= y THEN x ELSE y

\* C39: every public operation terminates: the element-shifting loops of
\* insert, emplace and erase, the loop of clear, and the loops of resize,
\* append and spillover each execute at most max(length, count) iterations,
\* including insert at index 0, clear on an empty container and erase of the
\* last element; no loop index wraps around.  The iterations counted from the
\* loop headers are those the operations perform.
C39_LoopsBounded ==
  \A c \in Conts :
    LET S == sv[c]
        n == size(S) IN
    /\ (is_array(S) /\ n < STATIC_AMOUNT) =>
         \A idx \in 0..n : \A v \in Val :
           LET steps == LoopDown(SizeT((n + 1) - 1), idx, 0) IN
           /\ steps = n - idx /\ steps <= n
           /\ Ended(insert(S, idx, v).s, 0) = steps
           /\ Ended(emplace(S, idx, v).s, 0) = steps
    /\ (is_array(S) /\ n <= STATIC_AMOUNT) =>
         /\ LET steps == LoopDown(n, 0, 0) IN
            /\ steps = n
            /\ Ended(clear(S), 0) = steps
         /\ \A idx \in 0..(n - 1) :
              LET steps == LoopUp(SizeT(idx + 1), n, 0) IN
              /\ steps = n - 1 - idx /\ steps <= n
              /\ Moved(erase(S, idx).s, 0) = steps
         /\ \A first \in 0..n : \A lst \in first..n :
              LET steps == LoopUp(first, lst, 0) + LoopUp(lst, n, 0) IN
              /\ steps = n - first /\ steps <= n
              /\ Ended(erase_range(S, first, lst).s, 0) = steps
    /\ \A call \in SpilloverCalls(S) :
         LET steps == LoopUp(0, Min(call.at.size_, STATIC_AMOUNT), 0) IN
         /\ steps <= call.at.size_
         /\ Len(spillover(call.at, call.capacity).vec_.buf) = steps
    /\ \A count \in Counts :
         (count > n /\ count <= max_size) =>
           LET steps == LoopUp(n, count, 0) IN
           /\ steps <= Max(n, count)
           /\ size(resize(S, count).s) = n + steps
           /\ size(resize_fill(S, count, DefaultT).s) = n + steps
    /\ LET O == sv[Other(c)]
           steps == LoopUp(0, size(O), 0) IN
       MayAppend(O) =>
         /\ steps <= Max(n, size(O))
         /\ size(append_copy(S, O)) = n + steps
         /\ size(append_move(S, O).self) = n + steps

\* An inline container with an element and a free slot: insert at index 0
\* shifts every element, erase of the last element shifts none, beside an
\* empty inline container, which clear leaves alone
C39_Witness ==
  /\ is_array(sv["a"]) /\ size(sv["a"]) >= 1 /\ size(sv["a"]) < STATIC_AMOUNT
  /\ WellFormed(sv["a"])
  /\ Ended(insert(sv["a"], 0, 1).s, 0) = size(sv["a"])
  /\ Moved(erase(sv["a"], size(sv["a"]) - 1).s, 0) = 0
  /\ is_array(sv["b"]) /\ size(sv["b"]) = 0
  /\ Ended(clear(sv["b"]), 0) = 0


====
